---- MODULE Spec2Model ----
(***************************************************************************)
(* Model of gophermail: the envelope computation and SMTP transaction of   *)
(* SendMail / SendTLSMail (smtp.go) and the MIME rendering Message.Bytes.  *)
(***************************************************************************)
EXTENDS Integers, Sequences, FiniteSets, TLC

VARIABLES
    msg,        \* the *Message handed to the send or render operation
    op,         \* operation in progress: "none", "SendMail", "SendTLSMail"
    a,          \* smtp.Auth argument (Nil when not supplied)
    cfg,        \* *tls.Config argument (Nil when not supplied)
    pc,         \* position inside the send
    msgBytes,   \* local msgBytes: the rendered message
    to,         \* local to: the envelope recipients
    from,       \* local from: the envelope sender
    rcptIdx,    \* position of the range loop over to
    ext,        \* extensions the server advertised in its last EHLO reply
    conn,       \* the client connection c: "none", "open", "closed"
    steps,      \* client calls attempted so far, in order
    written,    \* what was written to the data channel
    err,        \* value returned by the send ("pending" while running)
    now,        \* wall-clock time, as time.Now() reports it
    renders,    \* the Message.Bytes calls made so far, in order
    addr,       \* addr argument of the send
    cid,        \* identity of the connection c (0 before the dial)
    sender,     \* the smtpSender made by NewSMTPSender (NoSender before)
    nsends,     \* calls of sender.SendMail so far
    nconn,      \* connections dialed so far, by any send
    cur,        \* the send that is running
    parked      \* locals of the sends that are not running

\* The locals of one send: arguments, local variables and position.
locals == <<msg, op, a, cfg, pc, msgBytes, to, from, rcptIdx, ext, conn, steps,
            written, err, addr, cid>>

vars == <<msg, op, a, cfg, pc, msgBytes, to, from, rcptIdx, ext, conn, steps,
          written, err, now, renders, addr, cid, sender, nsends, nconn, cur, parked>>

\* What no step of an SMTP transaction touches.
others == <<now, renders, addr, sender, nsends, cur, parked>>

----------------------------------------------------------------------------
(* Bounds *)

MaxList == 1        \* longest To, Cc or Bcc list
MaxAtt == 1         \* longest Attachments list
MaxHdrVals == 2     \* most values under one pass-through header name
MaxRenders == 2     \* most Message.Bytes calls on one Message
MaxSends == 2       \* most sends through one Sender
MaxProcs == 2       \* sends running concurrently

(* Values *)

Nil == "nil"
Addrs == {"a@d", "b@d"}
Sender == "sender@d"
PlainBody == "plainBody"
HtmlBody == "htmlBody"
FileContents == "fileContents"
ReadFails == "readFails"
Now == "now"
ManualDate == "manualDate"
OtherDate == "otherDate"
Times == <<Now, "later1", "later2", "later3">>
Extensions == {"STARTTLS", "AUTH"}
NoSender == [addr |-> "", auth |-> Nil, tlsCfg |-> Nil]
ServerAddrs == {"mx2:25"}

SeqUpTo(S, n) == UNION {[1..k -> S] : k \in 0..n}

\* Every non-empty function from a subset of names to value sequences.
HeaderMaps(names, vals) ==
    UNION {[d -> {s \in SeqUpTo(vals, MaxHdrVals) : Len(s) > 0}] : d \in SUBSET names}

----------------------------------------------------------------------------
(* The envelope: the three range loops appending address.Address to to. *)

\* Variant: the lists are merged with duplicates removed.
Flatten_Dedup(m) ==
    LET all == m.To \o m.Cc \o m.Bcc
        First(i) == \A j \in 1..(i - 1) : all[j] # all[i]
        F[i \in 0..Len(all)] ==
            IF i = 0 THEN <<>>
            ELSE IF First(i) THEN Append(F[i - 1], all[i]) ELSE F[i - 1]
    IN F[Len(all)]

\* Variant: the third loop is missing, blind-copy recipients are not declared.
Flatten_NoBcc(m) == m.To \o m.Cc

Flatten(m) == m.To \o m.Cc \o m.Bcc

EnvelopeFrom(m) == m.From

----------------------------------------------------------------------------
(* Message.Bytes: structure selection, part encoding, header assembly. *)

Leaf(type, enc, disp, content) ==
    [type |-> type, enc |-> enc, disp |-> disp, filename |-> "",
     content |-> content, children |-> <<>>]

Multi(type, children) ==
    [type |-> type, enc |-> "", disp |-> "", filename |-> "", content |-> "",
     children |-> children]

PlainPart(body) == Leaf("text/plain", "quoted-printable", "", body)

HtmlPart(html) == Leaf("text/html", "base64", "", html)

AttachmentPart(att) ==
    [type |-> att.ContentType, enc |-> "base64", disp |-> "attachment",
     filename |-> att.Name, content |-> att.Data, children |-> <<>>]

\* Variant: the alternatives are written richest first.
BodyPart_HtmlFirst(m) ==
    IF m.Body # "" /\ m.HTMLBody # ""
    THEN Multi("multipart/alternative", <<HtmlPart(m.HTMLBody), PlainPart(m.Body)>>)
    ELSE IF m.HTMLBody # ""
         THEN HtmlPart(m.HTMLBody)
         ELSE PlainPart(m.Body)

\* Variant: without any body no part is written, only an empty container.
BodyPart_NoFallback(m) ==
    IF m.Body # "" /\ m.HTMLBody # ""
    THEN Multi("multipart/alternative", <<PlainPart(m.Body), HtmlPart(m.HTMLBody)>>)
    ELSE IF m.HTMLBody # ""
         THEN HtmlPart(m.HTMLBody)
         ELSE IF m.Body # "" THEN PlainPart(m.Body)
         ELSE Multi("multipart/alternative", <<>>)

BodyPart(m) ==
    IF m.Body # "" /\ m.HTMLBody # ""
    THEN Multi("multipart/alternative", <<PlainPart(m.Body), HtmlPart(m.HTMLBody)>>)
    ELSE IF m.HTMLBody # ""
         THEN HtmlPart(m.HTMLBody)
         ELSE PlainPart(m.Body)

\* Variant: attachments are written into the container of the bodies.
TopLevel_AttachInAlt(m) ==
    IF Len(m.Attachments) = 0
    THEN BodyPart(m)
    ELSE IF m.Body # "" /\ m.HTMLBody # ""
         THEN Multi("multipart/mixed",
                    <<Multi("multipart/alternative",
                            BodyPart(m).children \o
                            [i \in 1..Len(m.Attachments) |->
                                AttachmentPart(m.Attachments[i])])>>)
         ELSE Multi("multipart/mixed",
                    <<BodyPart(m)>> \o
                    [i \in 1..Len(m.Attachments) |-> AttachmentPart(m.Attachments[i])])

TopLevel(m) ==
    IF Len(m.Attachments) = 0
    THEN BodyPart(m)
    ELSE Multi("multipart/mixed",
               <<BodyPart(m)>> \o
               [i \in 1..Len(m.Attachments) |-> AttachmentPart(m.Attachments[i])])

SynthNames(m) ==
    {"From", "To", "Subject", "MIME-Version", "Date", "Content-Type"}
        \cup (IF Len(m.Cc) > 0 THEN {"Cc"} ELSE {})

\* Variant: the timestamp is always synthesized, a Date entry is ignored.
RenderHeader_AlwaysNow(m, t) ==
    [n \in SynthNames(m) \cup DOMAIN m.Headers |->
        IF n = "Date" THEN << <<t>> >>
        ELSE IF n \in DOMAIN m.Headers
        THEN [i \in 1..Len(m.Headers[n]) |-> <<m.Headers[n][i]>>]
        ELSE CASE n = "From" -> << <<m.From>> >>
               [] n = "To" -> <<m.To>>
               [] n = "Cc" -> <<m.Cc>>
               [] n = "Subject" -> << <<m.Subject>> >>
               [] n = "MIME-Version" -> << <<"1.0">> >>
               [] OTHER -> << <<TopLevel(m).type>> >>]

\* A header is a map from name to its values; a value is a sequence of tokens.
RenderHeader(m, t) ==
    [n \in SynthNames(m) \cup DOMAIN m.Headers |->
        IF n \in DOMAIN m.Headers THEN [i \in 1..Len(m.Headers[n]) |-> <<m.Headers[n][i]>>]
        ELSE CASE n = "From" -> << <<m.From>> >>
               [] n = "To" -> <<m.To>>
               [] n = "Cc" -> <<m.Cc>>
               [] n = "Subject" -> << <<m.Subject>> >>
               [] n = "MIME-Version" -> << <<"1.0">> >>
               [] n = "Date" -> << <<t>> >>
               [] OTHER -> << <<TopLevel(m).type>> >>]

\* Index of the first attachment whose stream fails to read, 0 if none.
FirstBroken(atts) ==
    IF \E i \in 1..Len(atts) : atts[i].Data = ReadFails
    THEN CHOOSE i \in 1..Len(atts) :
            /\ atts[i].Data = ReadFails
            /\ \A j \in 1..(i - 1) : atts[j].Data # ReadFails
    ELSE 0

BytesErr(m) ==
    IF m.From = "" THEN "MissingSender"
    ELSE IF FirstBroken(m.Attachments) # 0 THEN "AttachmentReadError"
    ELSE Nil

\* Variant: the render also empties the Attachments list it has written out.
Consumed_DropsAttachments(m) ==
    IF m.From = "" \/ FirstBroken(m.Attachments) # 0 THEN m
    ELSE [m EXCEPT !.Attachments = <<>>]

\* The message after the render read its attachment streams.
Consumed(m) ==
    IF m.From = "" THEN m
    ELSE LET b == FirstBroken(m.Attachments)
             last == IF b = 0 THEN Len(m.Attachments) ELSE b - 1
         IN [m EXCEPT !.Attachments =
                [i \in 1..Len(m.Attachments) |->
                    IF i <= last THEN [m.Attachments[i] EXCEPT !.Data = ""]
                    ELSE m.Attachments[i]]]

Rendered(m, t) == [header |-> RenderHeader(m, t), top |-> TopLevel(m)]

NoBytes == [header |-> <<>>, top |-> Multi("", <<>>)]

Bytes(m, t) ==
    [err |-> BytesErr(m),
     bytes |-> IF BytesErr(m) = Nil THEN Rendered(m, t) ELSE NoBytes,
     msg |-> Consumed(m)]

----------------------------------------------------------------------------
(* Inputs *)

Attachments ==
    [Name : {"test.txt"}, ContentType : {"text/plain"},
     Data : {FileContents, "", ReadFails}]

Messages(froms, tos, ccs, bccs, bodies, htmls, atts, hdrs) ==
    [From : froms, To : tos, Cc : ccs, Bcc : bccs, Subject : {"subject"},
     Body : bodies, HTMLBody : htmls, Attachments : atts, Headers : hdrs]

NoHeaders == <<>>

NoteHeader == [n \in {"X-Note"} |-> <<"b@d">>]

\* A caller-supplied Date entry, with or without a further pass-through entry.
RenderHeaders ==
    LET dates == HeaderMaps({"Date"}, {ManualDate, OtherDate}) IN
    dates \cup {[n \in DOMAIN d \cup {"X-Note"} |->
                    IF n = "X-Note" THEN <<"b@d">> ELSE d[n]] : d \in dates}

RenderMsgs ==
    Messages({"", Sender}, SeqUpTo(Addrs, MaxList), SeqUpTo({"b@d"}, MaxList),
             SeqUpTo({"a@d"}, MaxList), {"", PlainBody}, {"", HtmlBody},
             SeqUpTo(Attachments, MaxAtt), RenderHeaders)

BrokenAttachment ==
    [Name |-> "test.txt", ContentType |-> "text/plain", Data |-> ReadFails]

SendMsgs ==
    Messages({"", Sender}, SeqUpTo({"a@d"}, MaxList), SeqUpTo({"a@d"}, MaxList),
             SeqUpTo(Addrs, MaxList), {PlainBody}, {""}, {<<>>},
             {NoHeaders, NoteHeader})
    \cup Messages({Sender}, SeqUpTo({"a@d"}, 1), {<<>>}, {<<>>}, {PlainBody},
                  {""}, {<<BrokenAttachment>>}, {NoHeaders})

----------------------------------------------------------------------------
(* One send: SendMail or SendTLSMail on msg. *)

Init ==
    /\ msg \in SendMsgs
    /\ op = "none"
    /\ a = Nil
    /\ cfg = Nil
    /\ pc = "idle"
    /\ msgBytes = NoBytes
    /\ to = <<>>
    /\ from = ""
    /\ rcptIdx = 0
    /\ ext = {}
    /\ conn = "none"
    /\ steps = <<>>
    /\ written = NoBytes
    /\ err = "pending"
    /\ now = Now
    /\ renders = <<>>
    /\ addr = ""
    /\ cid = 0
    /\ sender = NoSender
    /\ nsends = 0
    /\ nconn = 0
    /\ cur = 1
    /\ parked = <<>>

Step(cmd, arg, ok) == [cmd |-> cmd, arg |-> arg, ok |-> ok]

\* Variant: the deferred close is missing.
Deferred_Leak(c) == c

\* defer c.Close(): the connection is released when the function returns.
Deferred(c) == IF c = "open" THEN "closed" ELSE c

\* A return statement, with c the connection held at that point.
Return(e, c) ==
    /\ pc' = "done"
    /\ err' = e
    /\ conn' = Deferred(c)

\* Falling through to the statement at p.
Continue(p, c) ==
    /\ pc' = p
    /\ conn' = c
    /\ UNCHANGED err

\* Record of one Message.Bytes call: the message and time it saw, its results.
Call(m, t, r) == [in |-> m, at |-> t, err |-> r.err, bytes |-> r.bytes]

\* Variant: the error of the render is not looked at before dialing.
Begin_IgnoreRenderError(name, auth, c) ==
    /\ pc = "idle"
    /\ op' = name
    /\ a' = auth
    /\ cfg' = c
    /\ LET r == Bytes(msg, now) IN
        /\ msg' = r.msg
        /\ renders' = Append(renders, Call(msg, now, r))
        /\ msgBytes' = r.bytes
        /\ to' = Flatten(r.msg)
        /\ from' = EnvelopeFrom(r.msg)
        /\ Continue("dial", conn)
    /\ UNCHANGED <<rcptIdx, ext, steps, written, now, cid, sender, nconn, cur, parked>>

\* Lines 35-54 / 59-78: render, then flatten To, Cc, Bcc into to.
Begin(name, auth, c) ==
    /\ pc = "idle"
    /\ op' = name
    /\ a' = auth
    /\ cfg' = c
    /\ LET r == Bytes(msg, now) IN
        /\ msg' = r.msg
        /\ renders' = Append(renders, Call(msg, now, r))
        /\ IF r.err # Nil
           THEN /\ Return(r.err, conn)
                /\ UNCHANGED <<msgBytes, to, from>>
           ELSE /\ msgBytes' = r.bytes
                /\ to' = Flatten(r.msg)
                /\ from' = EnvelopeFrom(r.msg)
                /\ Continue("dial", conn)
    /\ UNCHANGED <<rcptIdx, ext, steps, written, now, cid, sender, nconn, cur, parked>>

\* A direct call of SendMail(addr, a, msg), by a caller that uses no Sender.
SendMail ==
    /\ sender = NoSender
    /\ \E auth \in {Nil, "auth"} : Begin("SendMail", auth, Nil)
    /\ addr' = "mx1:25"
    /\ UNCHANGED nsends

\* A direct call of SendTLSMail(addr, a, msg, cfg).
SendTLSMail ==
    /\ sender = NoSender
    /\ \E auth \in {Nil, "auth"}, c \in {Nil, "tlsCfg"} : Begin("SendTLSMail", auth, c)
    /\ addr' = "mx1:25"
    /\ UNCHANGED nsends

\* Lines 23-29: NewSMTPSender(addr, auth, tlsCfg).
NewSMTPSender ==
    /\ sender = NoSender
    /\ pc = "idle"
    /\ \E ad \in ServerAddrs, auth \in {Nil, "auth"}, c \in {Nil, "tlsCfg"} :
        sender' = [addr |-> ad, auth |-> auth, tlsCfg |-> c]
    /\ UNCHANGED locals
    /\ UNCHANGED <<now, renders, nsends, nconn, cur, parked>>

\* Variant: the Sender always takes the SendMail path.
SenderSendMail_NoTLS ==
    /\ sender # NoSender
    /\ Begin("SendMail", sender.auth, Nil)
    /\ addr' = sender.addr
    /\ nsends' = nsends + 1

\* Lines 14-19: (*smtpSender).SendMail(msg).
SenderSendMail ==
    /\ sender # NoSender
    /\ IF sender.tlsCfg = Nil
       THEN Begin("SendMail", sender.auth, Nil)
       ELSE Begin("SendTLSMail", sender.auth, sender.tlsCfg)
    /\ addr' = sender.addr
    /\ nsends' = nsends + 1

\* The previous sender.SendMail has returned and the caller is about to send
\* through the same Sender again: the locals of the call are fresh.
NextSend ==
    /\ pc = "done"
    /\ sender # NoSender
    /\ nsends < MaxSends
    /\ op' = "none" /\ a' = Nil /\ cfg' = Nil /\ pc' = "idle"
    /\ msgBytes' = NoBytes /\ to' = <<>> /\ from' = "" /\ rcptIdx' = 0
    /\ ext' = {} /\ conn' = "none" /\ steps' = <<>> /\ written' = NoBytes
    /\ err' = "pending" /\ addr' = "" /\ cid' = 0
    /\ UNCHANGED <<msg, now, renders, sender, nsends, nconn, cur, parked>>

\* Variant: the server's capabilities are not consulted.
AuthWanted_IgnoreServer(auth, e) == auth # Nil

\* Lines 92-93: the exchange is entered when a credential was given and the
\* server advertises AUTH.
AuthWanted(auth, e) == auth # Nil /\ "AUTH" \in e

\* Variant: a credential the server cannot take ends the send, whatever the
\* operation.
Decision_Strict(o, auth, e, c) ==
    \/ /\ AuthWanted(auth, e)
       /\ Continue("auth", c)
    \/ /\ auth = Nil
       /\ Continue("mail", c)
    \/ /\ auth # Nil /\ "AUTH" \notin e
       /\ Return("AuthUnsupported", c)

\* Lines 92-98: where operation o, called with credential auth, goes once the
\* TLS question is settled and the server advertises e.
\* smtp.SendMail (line 54) may instead refuse a server that lacks AUTH.
Decision(o, auth, e, c) ==
    \/ /\ AuthWanted(auth, e)
       /\ Continue("auth", c)
    \/ /\ ~AuthWanted(auth, e)
       /\ Continue("mail", c)
    \/ /\ o = "SendMail" /\ auth # Nil /\ "AUTH" \notin e
       /\ Return("AuthUnsupported", c)

AfterTLS(e, c) == Decision(op, a, e, c)

\* Variant: connections come from a pool of one, dialed by the first send.
Dial_Pooled ==
    /\ pc = "dial"
    /\ \E ok \in BOOLEAN :
        /\ steps' = Append(steps, Step("DIAL", addr, ok))
        /\ IF ok
           THEN /\ cid' = 1
                /\ nconn' = 1
                /\ \E e \in SUBSET Extensions :
                    /\ ext' = e
                    /\ IF "STARTTLS" \in e
                       THEN Continue("starttls", "open")
                       ELSE AfterTLS(e, "open")
           ELSE /\ Return("DialFailed", conn)
                /\ UNCHANGED <<ext, cid, nconn>>
    /\ UNCHANGED others
    /\ UNCHANGED <<msg, op, a, cfg, msgBytes, to, from, rcptIdx, written>>

\* Variant: a TLS configuration makes the upgrade mandatory.
Dial_AlwaysUpgrade ==
    /\ pc = "dial"
    /\ \E ok \in BOOLEAN :
        /\ steps' = Append(steps, Step("DIAL", addr, ok))
        /\ IF ok
           THEN /\ cid' = nconn + 1
                /\ nconn' = nconn + 1
                /\ \E e \in SUBSET Extensions :
                    /\ ext' = e
                    /\ IF "STARTTLS" \in e \/ cfg # Nil
                       THEN Continue("starttls", "open")
                       ELSE AfterTLS(e, "open")
           ELSE /\ Return("DialFailed", conn)
                /\ UNCHANGED <<ext, cid, nconn>>
    /\ UNCHANGED others
    /\ UNCHANGED <<msg, op, a, cfg, msgBytes, to, from, rcptIdx, written>>

\* Lines 80-86: smtp.Dial, defer c.Close(), and the STARTTLS query.
Dial ==
    /\ pc = "dial"
    /\ \E ok \in BOOLEAN :
        /\ steps' = Append(steps, Step("DIAL", addr, ok))
        /\ IF ok
           THEN /\ cid' = nconn + 1
                /\ nconn' = nconn + 1
                /\ \E e \in SUBSET Extensions :
                    /\ ext' = e
                    /\ IF "STARTTLS" \in e
                       THEN Continue("starttls", "open")
                       ELSE AfterTLS(e, "open")
           ELSE /\ Return("DialFailed", conn)
                /\ UNCHANGED <<ext, cid, nconn>>
    /\ UNCHANGED others
    /\ UNCHANGED <<msg, op, a, cfg, msgBytes, to, from, rcptIdx, written>>

\* Variant: a failed upgrade is ignored and the session goes on in plaintext.
StartTLS_Fallback ==
    /\ pc = "starttls"
    /\ \E ok \in BOOLEAN :
        /\ steps' = Append(steps, Step("STARTTLS", cfg, ok))
        /\ \E e \in SUBSET (Extensions \ {"STARTTLS"}) :
            /\ ext' = e
            /\ AfterTLS(e, conn)
    /\ UNCHANGED <<cid, nconn>>
    /\ UNCHANGED others
    /\ UNCHANGED <<msg, op, a, cfg, msgBytes, to, from, rcptIdx, written>>

\* Lines 86-90: c.StartTLS(cfg); a successful upgrade repeats EHLO.
StartTLS ==
    /\ pc = "starttls"
    /\ \E ok \in BOOLEAN :
        /\ steps' = Append(steps, Step("STARTTLS", cfg, ok))
        /\ IF ok
           THEN \E e \in SUBSET (Extensions \ {"STARTTLS"}) :
                /\ ext' = e
                /\ AfterTLS(e, conn)
           ELSE /\ Return("StartTLSFailed", conn)
                /\ UNCHANGED ext
    /\ UNCHANGED <<cid, nconn>>
    /\ UNCHANGED others
    /\ UNCHANGED <<msg, op, a, cfg, msgBytes, to, from, rcptIdx, written>>

\* Lines 94-96: c.Auth(a).
Auth ==
    /\ pc = "auth"
    /\ \E ok \in BOOLEAN :
        /\ steps' = Append(steps, Step("AUTH", a, ok))
        /\ IF ok THEN Continue("mail", conn) ELSE Return("AuthFailed", conn)
    /\ UNCHANGED <<cid, nconn>>
    /\ UNCHANGED others
    /\ UNCHANGED <<msg, op, a, cfg, msgBytes, to, from, rcptIdx, ext, written>>

\* Variant: with nobody to send to, the transaction is given up after MAIL.
LoopAt_NeedsRecipient(i) ==
    IF i <= Len(to) THEN "rcpt" ELSE IF Len(to) = 0 THEN "quit" ELSE "data"

\* Statement reached when the range loop over to stands at index i.
LoopAt(i) == IF i <= Len(to) THEN "rcpt" ELSE "data"

\* Variant: a rejected MAIL is issued again.
Mail_Retry ==
    /\ pc = "mail"
    /\ \E ok \in BOOLEAN :
        /\ steps' = Append(steps, Step("MAIL", from, ok))
        /\ rcptIdx' = 1
        /\ IF ok \/ Len(steps) > 4
           THEN Continue(LoopAt(1), conn)
           ELSE Continue("mail", conn)
    /\ UNCHANGED <<cid, nconn>>
    /\ UNCHANGED others
    /\ UNCHANGED <<msg, op, a, cfg, msgBytes, to, from, ext, written>>

\* Lines 100-102: c.Mail(from).
Mail ==
    /\ pc = "mail"
    /\ \E ok \in BOOLEAN :
        /\ steps' = Append(steps, Step("MAIL", from, ok))
        /\ IF ok
           THEN /\ rcptIdx' = 1
                /\ Continue(LoopAt(1), conn)
           ELSE /\ Return("MailRejected", conn)
                /\ UNCHANGED rcptIdx
    /\ UNCHANGED <<cid, nconn>>
    /\ UNCHANGED others
    /\ UNCHANGED <<msg, op, a, cfg, msgBytes, to, from, ext, written>>

\* Variant: a rejected recipient is skipped and the loop goes on.
Rcpt_BestEffort ==
    /\ pc = "rcpt"
    /\ \E ok \in BOOLEAN :
        /\ steps' = Append(steps, Step("RCPT", to[rcptIdx], ok))
        /\ rcptIdx' = rcptIdx + 1
        /\ Continue(LoopAt(rcptIdx + 1), conn)
    /\ UNCHANGED <<cid, nconn>>
    /\ UNCHANGED others
    /\ UNCHANGED <<msg, op, a, cfg, msgBytes, to, from, ext, written>>

\* Lines 104-108: one iteration of the loop, c.Rcpt(addr).
Rcpt ==
    /\ pc = "rcpt"
    /\ \E ok \in BOOLEAN :
        /\ steps' = Append(steps, Step("RCPT", to[rcptIdx], ok))
        /\ IF ok
           THEN /\ rcptIdx' = rcptIdx + 1
                /\ Continue(LoopAt(rcptIdx + 1), conn)
           ELSE /\ Return("RecipientRejected", conn)
                /\ UNCHANGED rcptIdx
    /\ UNCHANGED <<cid, nconn>>
    /\ UNCHANGED others
    /\ UNCHANGED <<msg, op, a, cfg, msgBytes, to, from, ext, written>>

\* Lines 110-113: c.Data().
Data ==
    /\ pc = "data"
    /\ \E ok \in BOOLEAN :
        /\ steps' = Append(steps, Step("DATA", "", ok))
        /\ IF ok THEN Continue("write", conn) ELSE Return("DataRejected", conn)
    /\ UNCHANGED <<cid, nconn>>
    /\ UNCHANGED others
    /\ UNCHANGED <<msg, op, a, cfg, msgBytes, to, from, rcptIdx, ext, written>>

\* Lines 115-118: w.Write(msgBytes).
Write ==
    /\ pc = "write"
    /\ \E ok \in BOOLEAN :
        /\ steps' = Append(steps, Step("WRITE", "", ok))
        /\ IF ok
           THEN /\ written' = msgBytes
                /\ Continue("close", conn)
           ELSE /\ Return("WriteFailed", conn)
                /\ UNCHANGED written
    /\ UNCHANGED <<cid, nconn>>
    /\ UNCHANGED others
    /\ UNCHANGED <<msg, op, a, cfg, msgBytes, to, from, rcptIdx, ext>>

\* Lines 120-123: w.Close().
DataClose ==
    /\ pc = "close"
    /\ \E ok \in BOOLEAN :
        /\ steps' = Append(steps, Step("CLOSE", "", ok))
        /\ IF ok THEN Continue("quit", conn) ELSE Return("DataCloseFailed", conn)
    /\ UNCHANGED <<cid, nconn>>
    /\ UNCHANGED others
    /\ UNCHANGED <<msg, op, a, cfg, msgBytes, to, from, rcptIdx, ext, written>>

\* Variant: the message was accepted, so a failed QUIT is not reported.
Quit_IgnoreError ==
    /\ pc = "quit"
    /\ \E ok \in BOOLEAN :
        /\ steps' = Append(steps, Step("QUIT", "", ok))
        /\ Return(Nil, conn)
    /\ UNCHANGED <<cid, nconn>>
    /\ UNCHANGED others
    /\ UNCHANGED <<msg, op, a, cfg, msgBytes, to, from, rcptIdx, ext, written>>

\* Line 125: return c.Quit().
Quit ==
    /\ pc = "quit"
    /\ \E ok \in BOOLEAN :
        /\ steps' = Append(steps, Step("QUIT", "", ok))
        /\ Return(IF ok THEN Nil ELSE "QuitFailed", conn)
    /\ UNCHANGED <<cid, nconn>>
    /\ UNCHANGED others
    /\ UNCHANGED <<msg, op, a, cfg, msgBytes, to, from, rcptIdx, ext, written>>

Next ==
    \/ SendMail
    \/ SendTLSMail
    \/ NewSMTPSender
    \/ SenderSendMail
    \/ NextSend
    \/ Dial
    \/ StartTLS
    \/ Auth
    \/ Mail
    \/ Rcpt
    \/ Data
    \/ Write
    \/ DataClose
    \/ Quit

Spec == Init /\ [][Next]_vars

----------------------------------------------------------------------------
(* Several sends through one Sender, run concurrently and interleaved at
   every call. The variables msg .. cid hold the locals of the send that is
   running; the locals of the others wait in parked. *)

Procs == 1..MaxProcs

\* Entry of parked for the send that is running.
Running == "running"

\* The locals of the running send, as a record.
Save ==
    [msg |-> msg, op |-> op, a |-> a, cfg |-> cfg, pc |-> pc,
     msgBytes |-> msgBytes, to |-> to, from |-> from, rcptIdx |-> rcptIdx,
     ext |-> ext, conn |-> conn, steps |-> steps, written |-> written,
     err |-> err, addr |-> addr, cid |-> cid]

\* The send with locals r becomes the running one.
Restore(r) ==
    /\ msg' = r.msg /\ op' = r.op /\ a' = r.a /\ cfg' = r.cfg /\ pc' = r.pc
    /\ msgBytes' = r.msgBytes /\ to' = r.to /\ from' = r.from
    /\ rcptIdx' = r.rcptIdx /\ ext' = r.ext /\ conn' = r.conn
    /\ steps' = r.steps /\ written' = r.written /\ err' = r.err
    /\ addr' = r.addr /\ cid' = r.cid

\* The locals of a send of m that has not been called yet.
Fresh(m) ==
    [msg |-> m, op |-> "none", a |-> Nil, cfg |-> Nil, pc |-> "idle",
     msgBytes |-> NoBytes, to |-> <<>>, from |-> "", rcptIdx |-> 0,
     ext |-> {}, conn |-> "none", steps |-> <<>>, written |-> NoBytes,
     err |-> "pending", addr |-> "", cid |-> 0]

\* Send p has a Message of its own, to a recipient of its own.
ConcTo == <<"a@d", "b@d", "c@d", "d@d">>

ConcMsg(p) ==
    [From |-> Sender, To |-> <<ConcTo[p]>>, Cc |-> <<>>, Bcc |-> <<>>,
     Subject |-> "subject", Body |-> PlainBody, HTMLBody |-> "",
     Attachments |-> <<>>, Headers |-> NoHeaders]

\* The Sender all the sends go through.
SharedSender == [addr |-> "mx1:25", auth |-> "auth", tlsCfg |-> "tlsCfg"]

InitConc ==
    /\ sender = SharedSender
    /\ cur = 1
    /\ parked = [p \in Procs |-> IF p = 1 THEN Running ELSE Fresh(ConcMsg(p))]
    /\ msg = ConcMsg(1)
    /\ op = "none"
    /\ a = Nil
    /\ cfg = Nil
    /\ pc = "idle"
    /\ msgBytes = NoBytes
    /\ to = <<>>
    /\ from = ""
    /\ rcptIdx = 0
    /\ ext = {}
    /\ conn = "none"
    /\ steps = <<>>
    /\ written = NoBytes
    /\ err = "pending"
    /\ addr = ""
    /\ cid = 0
    /\ now = Now
    /\ renders = <<>>
    /\ nsends = 0
    /\ nconn = 0

\* The scheduler takes the running send off and puts on another one that has
\* not returned.
Switch ==
    /\ \E q \in Procs \ {cur} :
        /\ parked[q].pc # "done"
        /\ cur' = q
        /\ Restore(parked[q])
        /\ parked' = [parked EXCEPT ![cur] = Save, ![q] = Running]
    /\ UNCHANGED <<now, renders, sender, nsends, nconn>>

\* The last call of q succeeded.
LastStepOk(q) == Len(q) > 0 /\ q[Len(q)].ok

\* The server of the concurrent runs advertises STARTTLS and AUTH in its
\* first EHLO reply and AUTH after the upgrade; it may refuse the connection
\* and reject a recipient, and lets every other call succeed.
ConcServer ==
    /\ (pc = "dial" /\ LastStepOk(steps')) => ext' = {"STARTTLS", "AUTH"}
    /\ (pc = "starttls" /\ LastStepOk(steps')) => ext' = {"AUTH"}
    /\ ~LastStepOk(steps') => pc \in {"dial", "rcpt"}

NextConc ==
    \/ SenderSendMail
    \/ Dial /\ ConcServer
    \/ StartTLS /\ ConcServer
    \/ Auth /\ ConcServer
    \/ Mail /\ ConcServer
    \/ Rcpt /\ ConcServer
    \/ Data /\ ConcServer
    \/ Write /\ ConcServer
    \/ DataClose /\ ConcServer
    \/ Quit /\ ConcServer
    \/ Switch

SpecConc == InitConc /\ [][NextConc]_vars

----------------------------------------------------------------------------
(* One render: Message.Bytes called directly on msg, as the tests do. *)

InitRender ==
    /\ msg \in RenderMsgs
    /\ op = "none"
    /\ a = Nil
    /\ cfg = Nil
    /\ pc = "idle"
    /\ msgBytes = NoBytes
    /\ to = <<>>
    /\ from = ""
    /\ rcptIdx = 0
    /\ ext = {}
    /\ conn = "none"
    /\ steps = <<>>
    /\ written = NoBytes
    /\ err = "pending"
    /\ now = Now
    /\ renders = <<>>
    /\ addr = ""
    /\ cid = 0
    /\ sender = NoSender
    /\ nsends = 0
    /\ nconn = 0
    /\ cur = 1
    /\ parked = <<>>

BytesCall ==
    /\ pc = "idle"
    /\ op' = "Bytes"
    /\ LET r == Bytes(msg, now) IN
        /\ msg' = r.msg
        /\ msgBytes' = r.bytes
        /\ err' = r.err
        /\ renders' = Append(renders, Call(msg, now, r))
    /\ pc' = "done"
    /\ UNCHANGED <<a, cfg, to, from, rcptIdx, ext, conn, steps, written, now>>
    /\ UNCHANGED <<addr, cid, sender, nsends, nconn, cur, parked>>

TimeAfter(t) == Times[1 + CHOOSE i \in 1..Len(Times) : Times[i] = t]

\* The streams as the caller handed them to the first render.
Rewound(m) == [m EXCEPT !.Attachments = renders[1].in.Attachments]

\* The caller gets ready to render the same Message again, later, with the
\* attachment streams either reset or left as the previous render left them.
NextCall ==
    /\ pc = "done"
    /\ op = "Bytes"
    /\ Len(renders) < MaxRenders
    /\ \E reset \in BOOLEAN : msg' = IF reset THEN Rewound(msg) ELSE msg
    /\ now' = TimeAfter(now)
    /\ pc' = "idle"
    /\ err' = "pending"
    /\ UNCHANGED <<op, a, cfg, msgBytes, to, from, rcptIdx, ext, conn, steps,
                   written, renders>>
    /\ UNCHANGED <<addr, cid, sender, nsends, nconn, cur, parked>>

NextRender ==
    \/ BytesCall
    \/ NextCall

SpecRender == InitRender /\ [][NextRender]_vars

----------------------------------------------------------------------------
(* Vocabulary of the properties *)

StepIdx(cmd) == {i \in 1..Len(steps) : steps[i].cmd = cmd}

Attempted(cmd) == StepIdx(cmd) # {}

Failed(cmd) == \E i \in StepIdx(cmd) : ~steps[i].ok

IsRcpt(s) == s.cmd = "RCPT"

\* The RCPT calls made so far, in the order they were made.
RcptSteps == SelectSeq(steps, IsRcpt)

\* The recipient the envelope must hold at position i: To, then Cc, then Bcc.
Recipient(m, i) ==
    IF i <= Len(m.To) THEN m.To[i]
    ELSE IF i <= Len(m.To) + Len(m.Cc) THEN m.Cc[i - Len(m.To)]
    ELSE m.Bcc[i - Len(m.To) - Len(m.Cc)]

NumRecipients(m) == Len(m.To) + Len(m.Cc) + Len(m.Bcc)

\* A failed call is the last call of the send, and the send has returned e.
TerminalFailure(cmd, e) ==
    Failed(cmd) =>
        /\ ~steps[Len(steps)].ok /\ steps[Len(steps)].cmd = cmd
        /\ pc = "done"
        /\ err = e

----------------------------------------------------------------------------
\* C1: in a SendTLSMail transaction the RCPT calls are made for the envelope
\* recipients in order, one each; DATA is attempted only after all N were
\* accepted; a rejected RCPT k is the k-th and last RCPT and the last call of
\* the send, no DATA is attempted, and the send returns the rejection error.
C1_RcptBeforeData ==
    op = "SendTLSMail" =>
        /\ Len(RcptSteps) <= NumRecipients(msg)
        /\ \A k \in 1..Len(RcptSteps) :
            /\ RcptSteps[k].arg = Recipient(msg, k)
            /\ (k < Len(RcptSteps) => RcptSteps[k].ok)
        /\ Attempted("DATA") =>
            /\ Len(RcptSteps) = NumRecipients(msg)
            /\ \A i \in StepIdx("RCPT"), j \in StepIdx("DATA") : i < j /\ steps[i].ok
        /\ Failed("RCPT") => ~Attempted("DATA")
        /\ TerminalFailure("RCPT", "RecipientRejected")

\* Recipient 2 of 3 was rejected.
C1_Witness ==
    /\ op = "SendTLSMail"
    /\ NumRecipients(msg) = 3
    /\ Len(RcptSteps) = 2
    /\ ~RcptSteps[2].ok
    /\ pc = "done"

----------------------------------------------------------------------------
----------------------------------------------------------------------------
\* C3: when SendTLSMail has returned and its dial had succeeded, the
\* connection is closed, whichever step the send ended at.
C3_ConnectionClosed ==
    (op = "SendTLSMail" /\ pc = "done" /\ \E i \in StepIdx("DIAL") : steps[i].ok)
        => conn = "closed"

\* The send returned after a failed QUIT, on a connection that was opened.
C3_Witness ==
    /\ op = "SendTLSMail" /\ pc = "done"
    /\ Failed("QUIT")
    /\ conn = "closed"

----------------------------------------------------------------------------
\* C4: a failed STARTTLS is the last call of the send, which returns that
\* error; no AUTH, MAIL, RCPT or DATA is issued on the connection, and while
\* the advertised upgrade is pending nothing else has been issued either.
C4_NoPlaintextFallback ==
    op = "SendTLSMail" =>
        /\ TerminalFailure("STARTTLS", "StartTLSFailed")
        /\ Failed("STARTTLS") =>
              \A c \in {"AUTH", "MAIL", "RCPT", "DATA"} : ~Attempted(c)
        /\ pc = "starttls" => ("STARTTLS" \in ext /\ Len(steps) = 1)

\* The upgrade was attempted with a credential at hand and failed.
C4_Witness ==
    /\ op = "SendTLSMail" /\ a # Nil
    /\ Failed("STARTTLS")
    /\ pc = "done"

----------------------------------------------------------------------------
\* C5: in SendTLSMail, once the send has come to MAIL or to the exchange,
\* AUTH was entered exactly when a credential was supplied and the server
\* advertises AUTH; a failed AUTH is the last call, the send returns that
\* error and no MAIL, RCPT or DATA is issued; without a credential there is
\* never an AUTH call.
C5_AuthExactlyWhen ==
    op = "SendTLSMail" =>
        /\ (pc = "auth" \/ Attempted("AUTH") \/ pc = "mail" \/ Attempted("MAIL")) =>
              ((pc = "auth" \/ Attempted("AUTH")) <=> (a # Nil /\ "AUTH" \in ext))
        /\ Cardinality(StepIdx("AUTH")) <= 1
        /\ TerminalFailure("AUTH", "AuthFailed")
        /\ Failed("AUTH") => \A c \in {"MAIL", "RCPT", "DATA"} : ~Attempted(c)
        /\ a = Nil => ~Attempted("AUTH")

\* A credential was supplied, the server does not advertise AUTH, and the
\* send went on to MAIL without the exchange.
C5_Witness ==
    /\ op = "SendTLSMail" /\ a # Nil /\ "AUTH" \notin ext
    /\ Attempted("MAIL") /\ ~Attempted("AUTH")

----------------------------------------------------------------------------
\* Position of a call in the fixed sequence of one send.
Rank(cmd) ==
    CASE cmd = "DIAL" -> 1
      [] cmd = "STARTTLS" -> 2
      [] cmd = "AUTH" -> 3
      [] cmd = "MAIL" -> 4
      [] cmd = "RCPT" -> 5
      [] cmd = "DATA" -> 6
      [] cmd = "WRITE" -> 7
      [] cmd = "CLOSE" -> 8
      [] cmd = "QUIT" -> 9

\* Calls that every send reaching rank r has made before it.
Mandatory(r) == {c \in {"DIAL", "MAIL", "DATA", "WRITE", "CLOSE"} : Rank(c) < r}

\* C6: the calls of one send follow the order Dial, StartTLS, Auth, MAIL,
\* RCPT x N, DATA, write, data close, QUIT: every call but the last
\* succeeded, the send has returned once a call failed, none of the
\* non-optional predecessors of a call is skipped, and no call is made twice
\* (RCPT at most once per recipient).
C6_FixedSequence ==
    /\ \A i \in 1..Len(steps) :
        /\ (i < Len(steps) => steps[i].ok)
        /\ (~steps[i].ok => pc = "done" /\ err \notin {"pending", Nil})
        /\ \A c \in Mandatory(Rank(steps[i].cmd)) : \E j \in 1..(i - 1) : steps[j].cmd = c
        /\ (Rank(steps[i].cmd) > 5 => Len(RcptSteps) = NumRecipients(msg))
        /\ \A j \in (i + 1)..Len(steps) :
            \/ Rank(steps[i].cmd) < Rank(steps[j].cmd)
            \/ steps[i].cmd = "RCPT" /\ steps[j].cmd = "RCPT"
    /\ Len(RcptSteps) <= NumRecipients(msg)
    /\ (pc = "done" /\ err = Nil) => (Attempted("QUIT") /\ steps[Len(steps)].ok)

\* A send that went through every kind of call and whose QUIT failed.
C6_Witness ==
    /\ pc = "done"
    /\ Attempted("STARTTLS") /\ Attempted("AUTH")
    /\ Len(RcptSteps) = 3
    /\ Failed("QUIT")

----------------------------------------------------------------------------
Range(q) == {q[i] : i \in 1..Len(q)}

\* Every token occurring in some value of some header line.
HeaderTokens(h) ==
    UNION {UNION {Range(h[n][i]) : i \in 1..Len(h[n])} : n \in DOMAIN h}

\* What the caller put into the pass-through Headers map.
PassThroughValues(m) == UNION {Range(m.Headers[n]) : n \in DOMAIN m.Headers}

\* Bcc address i has its place in the envelope and is declared from there:
\* its RCPT is the one made at that place, and DATA comes only after it.
BccDeclared(i) ==
    LET p == Len(msg.To) + Len(msg.Cc) + i IN
    /\ Len(to) >= p /\ to[p] = msg.Bcc[i]
    /\ Len(RcptSteps) >= p => RcptSteps[p].arg = msg.Bcc[i]
    /\ Attempted("DATA") => (Len(RcptSteps) >= p /\ RcptSteps[p].ok)

----------------------------------------------------------------------------
(* Reading a rendered message back, as testMail does. *)

IsMultipart(p) == p.type \in {"multipart/mixed", "multipart/alternative"}

IsAttachment(p) == p.disp = "attachment"

\* The parts readParts visits at the top level ...
TopParts(t) == IF IsMultipart(t) THEN Range(t.children) ELSE {t}

\* ... and those it visits inside a nested multipart/alternative.
NestedParts(t) ==
    IF IsMultipart(t)
    THEN UNION {Range(c.children) :
                    c \in {x \in Range(t.children) : x.type = "multipart/alternative"}}
    ELSE {}

PartFound(t, type) ==
    \E p \in TopParts(t) \cup NestedParts(t) : ~IsAttachment(p) /\ p.type = type

PlainFound(t) == PartFound(t, "text/plain")

HtmlFound(t) == PartFound(t, "text/html")

\* The body part of a rendered message: the first child of multipart/mixed,
\* the top-level content otherwise.
RenderedBody(t) == IF t.type = "multipart/mixed" THEN t.children[1] ELSE t

RenderOk == op = "Bytes" /\ pc = "done" /\ err = Nil

HasPlain == msg.Body # ""

HasHTML == msg.HTMLBody # ""

IsLeaf(p, type, content) ==
    p.type = type /\ p.content = content /\ p.children = <<>> /\ ~IsAttachment(p)

----------------------------------------------------------------------------
\* C8: the rendered body part is multipart/alternative with exactly the two
\* children text/plain, text/html in that order when Body and HTMLBody are
\* both set, a single text/html part when only HTMLBody is set, a single
\* text/plain part otherwise; a text/plain part is present iff Body is set or
\* neither is, a text/html part iff HTMLBody is set.
C8_BodyStructure ==
    RenderOk =>
        LET b == RenderedBody(msgBytes.top) IN
        /\ (HasPlain /\ HasHTML) =>
            /\ b.type = "multipart/alternative"
            /\ Len(b.children) = 2
            /\ IsLeaf(b.children[1], "text/plain", msg.Body)
            /\ IsLeaf(b.children[2], "text/html", msg.HTMLBody)
        /\ (~HasPlain /\ HasHTML) => IsLeaf(b, "text/html", msg.HTMLBody)
        /\ ~HasHTML => IsLeaf(b, "text/plain", msg.Body)
        /\ PlainFound(msgBytes.top) <=> (HasPlain \/ (~HasPlain /\ ~HasHTML))
        /\ HtmlFound(msgBytes.top) <=> HasHTML

\* Both bodies set, rendered under an attachment of type text/plain.
C8_Witness ==
    /\ RenderOk /\ HasPlain /\ HasHTML
    /\ Len(msg.Attachments) = 1
    /\ RenderedBody(msgBytes.top).type = "multipart/alternative"

----------------------------------------------------------------------------
WithoutAttachments(m) == [m EXCEPT !.Attachments = <<>>]

----------------------------------------------------------------------------
\* C10: a message with a sender and readable attachment streams but neither
\* Body nor HTMLBody renders without error to exactly one text/plain part of
\* empty content: the top-level part when there are no attachments, the first
\* child of multipart/mixed (all other children being attachments) when there
\* are; no text/html part is produced.
C10_EmptyPlainFallback ==
    (op = "Bytes" /\ pc = "done" /\ ~HasPlain /\ ~HasHTML /\ msg.From # ""
        /\ \A i \in 1..Len(msg.Attachments) : msg.Attachments[i].Data # ReadFails) =>
        LET t == msgBytes.top IN
        /\ err = Nil
        /\ Len(msg.Attachments) = 0 => IsLeaf(t, "text/plain", "")
        /\ Len(msg.Attachments) > 0 =>
            /\ t.type = "multipart/mixed"
            /\ IsLeaf(t.children[1], "text/plain", "")
            /\ \A i \in 2..Len(t.children) : IsAttachment(t.children[i])
        /\ ~HtmlFound(t)

\* No body at all, one attachment.
C10_Witness ==
    /\ RenderOk /\ ~HasPlain /\ ~HasHTML
    /\ Len(msg.Attachments) = 1
    /\ msgBytes.top.children[1].type = "text/plain"
    /\ msgBytes.top.children[1].content = ""

----------------------------------------------------------------------------
HasDateEntry == "Date" \in DOMAIN msg.Headers

----------------------------------------------------------------------------
\* A rendered message without its Date value (boundary tokens are not part
\* of the part tree).
Structure(b) ==
    [header |-> [n \in DOMAIN b.header \ {"Date"} |-> b.header[n]], top |-> b.top]

\* What a render may do to a message: leave every stream as it is or
\* exhausted, and everything else untouched.
OnlyStreamsRead(m, m2) ==
    /\ m2 = [m EXCEPT !.Attachments = m2.Attachments]
    /\ Len(m2.Attachments) = Len(m.Attachments)
    /\ \A i \in 1..Len(m.Attachments) :
        /\ m2.Attachments[i] = [m.Attachments[i] EXCEPT !.Data = m2.Attachments[i].Data]
        /\ m2.Attachments[i].Data \in {m.Attachments[i].Data, ""}

----------------------------------------------------------------------------
IsSend == op \in {"SendMail", "SendTLSMail"}

\* The render made by the send that is running.
ThisRender == renders[Len(renders)]

\* C13: a send renders the message first; when From is unset or an
\* attachment stream fails to read the render fails, the send returns that
\* error and no connection is dialed and no SMTP call made; a dial happens
\* only after the render returned bytes without error.
C13_RenderBeforeIO ==
    /\ ~IsSend => (steps = <<>> /\ conn = "none")
    /\ IsSend =>
        /\ Len(renders) >= 1
        /\ (ThisRender.in.From = "" \/ FirstBroken(ThisRender.in.Attachments) # 0)
              => ThisRender.err # Nil
        /\ ThisRender.err # Nil =>
            /\ pc = "done" /\ err = ThisRender.err
            /\ steps = <<>> /\ conn = "none"
        /\ (steps # <<>> \/ conn # "none") =>
            /\ steps[1].cmd = "DIAL"
            /\ ThisRender.err = Nil
            /\ msgBytes = ThisRender.bytes /\ msgBytes # NoBytes

\* A send of a message whose attachment cannot be read has returned.
C13_Witness ==
    /\ IsSend /\ pc = "done"
    /\ err = "AttachmentReadError"
    /\ steps = <<>> /\ conn = "none"

----------------------------------------------------------------------------
\* The step after which lines 92-98 are reached: a successful dial to a
\* server without STARTTLS, or a successful upgrade.
SettlesTLS ==
    \/ pc = "dial" /\ LastStepOk(steps') /\ "STARTTLS" \notin ext'
    \/ pc = "starttls" /\ LastStepOk(steps')

\* C14: SendMail and SendTLSMail do the same thing but for the TLS
\* configuration. Envelope, rendered bytes and every call from MAIL on are the
\* same statements in both; where the two differ in text, after the TLS
\* question is settled, whatever one operation does next (enter AUTH, go on
\* to MAIL, or return) with a credential and a server reply is what the other
\* does with the same credential and reply.
C14_SameAsSendMail ==
    [][(IsSend /\ SettlesTLS) =>
        /\ Decision("SendMail", a, ext', "open")
        /\ Decision("SendTLSMail", a, ext', "open")]_vars

-----------------------------------------------------------------------------
\* The send that is running was started by the Sender.
BySender == sender # NoSender /\ IsSend

-----------------------------------------------------------------------------
AllStepsOk == \A i \in 1..Len(steps) : steps[i].ok

\* C17: SendTLSMail returns nil exactly when the render and every call it
\* made succeeded, the final QUIT included: a QUIT that fails after the data
\* channel was closed successfully makes the send return QUIT's error.
C17_SuccessIffAllSteps ==
    (op = "SendTLSMail" /\ pc = "done") =>
        /\ err = Nil <=> (ThisRender.err = Nil /\ AllStepsOk)
        /\ err = Nil => (Attempted("QUIT") /\ steps[Len(steps)].cmd = "QUIT")
        /\ Failed("QUIT") =>
            /\ err = "QuitFailed"
            /\ \A i \in 1..(Len(steps) - 1) : steps[i].ok
            /\ steps[Len(steps) - 1].cmd = "CLOSE"

\* The server took the message and then QUIT failed.
C17_Witness ==
    /\ op = "SendTLSMail" /\ pc = "done"
    /\ Failed("QUIT") /\ Attempted("CLOSE") /\ ~Failed("CLOSE")
    /\ err = "QuitFailed"
    /\ written = msgBytes

-----------------------------------------------------------------------------
\* C18: SendTLSMail attempts the upgrade exactly when the server advertises
\* STARTTLS. After a successful dial to a server that does not advertise it,
\* the send goes on over the connection as it is, to AUTH or MAIL, with no
\* error, also when a TLS configuration was given; STARTTLS is only ever
\* issued from the statement entered that way.
C18_UpgradeIffAdvertised ==
    [][op = "SendTLSMail" =>
        /\ (pc = "dial" /\ LastStepOk(steps')) =>
            /\ pc' = "starttls" <=> "STARTTLS" \in ext'
            /\ "STARTTLS" \notin ext' =>
                /\ pc' = (IF AuthWanted(a, ext') THEN "auth" ELSE "mail")
                /\ conn' = "open"
                /\ err' = err
        /\ (Attempted("STARTTLS")' /\ ~Attempted("STARTTLS")) => pc = "starttls"
        /\ (pc' = "starttls" /\ pc # "starttls") => pc = "dial"]_vars

\* A send with a TLS configuration and a credential succeeded without the
\* upgrade ever being attempted.
C18_Witness ==
    /\ op = "SendTLSMail" /\ cfg # Nil
    /\ pc = "done" /\ err = Nil
    /\ ~Attempted("STARTTLS")
    /\ Attempted("AUTH") /\ Attempted("DATA")

-----------------------------------------------------------------------------
\* C19: in SendTLSMail, with a credential and a server that does not
\* advertise AUTH, the send goes from the TLS question straight to MAIL: no
\* AUTH call is made then or later, and no error is set.
C19_NoAuthNoError ==
    [][(op = "SendTLSMail" /\ a # Nil) =>
        /\ (SettlesTLS /\ "AUTH" \notin ext') =>
            /\ pc' = "mail"
            /\ err' = err
            /\ conn' = "open"
        /\ (pc \in {"mail", "rcpt", "data", "write", "close", "quit", "done"}
              /\ ~Attempted("AUTH")) => ~Attempted("AUTH")']_vars

\* A send with a credential succeeded at a server without AUTH.
C19_Witness ==
    /\ op = "SendTLSMail" /\ a # Nil
    /\ "AUTH" \notin ext
    /\ pc = "done" /\ err = Nil
    /\ ~Attempted("AUTH")
    /\ Attempted("MAIL") /\ Attempted("DATA")

-----------------------------------------------------------------------------
\* The names of the calls made so far, in order.
Cmds == [i \in 1..Len(steps) |-> steps[i].cmd]

\* C20: for a Message with To, Cc and Bcc all empty, SendTLSMail rejects
\* nothing itself: the send reaches the dial when the render succeeds, a
\* successful MAIL is followed by DATA, and no RCPT is ever issued, so that a
\* completed send made MAIL, DATA, the write, the close and QUIT in a row.
C20_NoRecipients ==
    [][(op' = "SendTLSMail" /\ NumRecipients(msg) = 0) =>
        /\ (pc = "idle" /\ ThisRender'.err = Nil) => pc' = "dial"
        /\ (pc = "mail" /\ LastStepOk(steps')) => (pc' = "data" /\ err' = err)
        /\ ~Attempted("RCPT")'
        /\ Attempted("QUIT")' =>
              SubSeq(Cmds', Len(steps') - 4, Len(steps')) =
                  <<"MAIL", "DATA", "WRITE", "CLOSE", "QUIT">>]_vars

\* A send to nobody has succeeded.
C20_Witness ==
    /\ op = "SendTLSMail" /\ NumRecipients(msg) = 0
    /\ to = <<>>
    /\ pc = "done" /\ err = Nil
    /\ Attempted("MAIL") /\ Attempted("QUIT")

-----------------------------------------------------------------------------
\* The locals of send p, running or not.
SendOf(p) == IF p = cur THEN Save ELSE parked[p]

Sends == [p \in Procs |-> SendOf(p)]

\* The calls send p makes when it runs alone against the server of the
\* concurrent runs and nothing fails.
SoloCalls(p) ==
    <<[cmd |-> "DIAL", arg |-> SharedSender.addr],
      [cmd |-> "STARTTLS", arg |-> SharedSender.tlsCfg],
      [cmd |-> "AUTH", arg |-> SharedSender.auth],
      [cmd |-> "MAIL", arg |-> Sender],
      [cmd |-> "RCPT", arg |-> ConcTo[p]],
      [cmd |-> "DATA", arg |-> ""],
      [cmd |-> "WRITE", arg |-> ""],
      [cmd |-> "CLOSE", arg |-> ""],
      [cmd |-> "QUIT", arg |-> ""]>>

\* The bytes send p renders.
ConcBytes == [p \in 1..Len(ConcTo) |-> Rendered(ConcMsg(p), Now)]

\* r is a state send p goes through when it runs alone: its calls are the
\* first calls of SoloCalls(p), only the last of them may have failed, it
\* has returned exactly when a call failed or QUIT was made, with nil exactly
\* when nothing failed, and it holds its own message, envelope and bytes.
Alone(p, r) ==
    LET n == Len(r.steps) IN
    /\ r.msg = ConcMsg(p)
    /\ n <= Len(SoloCalls(p))
    /\ \A i \in 1..n :
        /\ [cmd |-> r.steps[i].cmd, arg |-> r.steps[i].arg] = SoloCalls(p)[i]
        /\ i < n => r.steps[i].ok
    /\ r.pc = "done" <=> (n > 0 /\ (~r.steps[n].ok \/ n = Len(SoloCalls(p))))
    /\ r.pc = "done" => (r.err = Nil <=> r.steps[n].ok)
    /\ r.pc # "idle" =>
        /\ r.to = <<ConcTo[p]>> /\ r.from = Sender
        /\ r.msgBytes = ConcBytes[p]
    /\ r.written \in {NoBytes, ConcBytes[p]}
    /\ r.cid # 0 <=> (n > 0 /\ r.steps[1].ok)
    /\ r.conn = (IF r.cid = 0 THEN "none"
                 ELSE IF r.pc = "done" THEN "closed" ELSE "open")

\* C16: of several sends running concurrently through one Sender, each on a
\* Message of its own, each dials a connection of its own, no two sends hold
\* the same connection, a call of one send changes nothing of another, a
\* switch between sends changes nothing of any, and every send goes through
\* the states it goes through when it runs alone.
C16_Independent ==
    [][/\ \A p \in Procs, q \in Procs :
            (p # q /\ SendOf(p)'.cid # 0) => SendOf(p)'.cid # SendOf(q)'.cid
       /\ \A p \in Procs : SendOf(p)'.cid \in 0..nconn'
       /\ \A p \in Procs : Alone(p, SendOf(p)')
       /\ cur' = cur => parked' = parked
       /\ cur' # cur => Sends' = Sends]_vars

\* Every send has returned; send 1 was called first, dialed after send 2 and
\* succeeded; send 2 failed after its dial.
C16_Witness ==
    /\ \A p \in Procs : Sends[p].pc = "done"
    /\ renders[1].in = ConcMsg(1)
    /\ Sends[1].cid = 2 /\ Sends[1].err = Nil
    /\ Sends[2].cid = 1 /\ Sends[2].err # Nil

====
